---- MODULE Spec2Model ----
(***************************************************************************)
(* merge_endsongs.py: reconcile the defective rows of the "endsong" table  *)
(* (platform = 'ios', names nulled) with the "history" table, write the    *)
(* result to "endsong_modified", enrich it, export it and save the whole   *)
(* database back to data.db.  One behaviour is a sequence of runs of the   *)
(* script over the same input directory.                                    *)
(*                                                                         *)
(* Timestamps are seconds (60 to the minute): endsong.ts is second-exact,  *)
(* history.endTime is the minute.  Durations are small integers standing   *)
(* for distinct msPlayed values.  Strings are TLA+ strings.                *)
(***************************************************************************)
EXTENDS Integers, Sequences, FiniteSets, Bags, TLC

\* ---------------------------------------------------------------- bounds
NumHistory == 3
NumDefective == 3
MaxRuns == 2

\* -------------------------------------------------------------- literals
NULL == "NULL"
UnknownTrack == "Unknown Track"
UnknownArtist == "Unknown Artist"
\* no_extra's key is (track_name, artist_name)
SentinelKey == <<UnknownTrack, UnknownArtist>>
UrlPrefix == "https://open.spotify.com/track/"
UriPrefix == "spotify:track:"

\* ------------------------------------------------------ generic helpers
Min(a, b) == IF a < b THEN a ELSE b

\* The rows of S in ascending order of key[r], ties by ascending id: the
\* order SQLite's sorter gives a scan in rowid order.  key is a function on S.
RECURSIVE OrderBy(_, _)
OrderBy(S, key) ==
    IF S = {} THEN <<>>
    ELSE LET first == CHOOSE r \in S : \A q \in S :
                         \/ key[r] < key[q]
                         \/ key[r] = key[q] /\ r.id <= q.id
         IN <<first>> \o OrderBy(S \ {first}, key)

\* The rows of S in rowid order (a table scan)
ScanOrder(S) == OrderBy(S, [r \in S |-> r.id])
SeqToSet(s) == {s[k] : k \in DOMAIN s}
\* list(set(matches)): the distinct elements in an order the hash seed picks
Orderings(S) == {p \in [1..Cardinality(S) -> S] : SeqToSet(p) = S}

\* ------------------------------------------------------- string helpers
\* Python s.split("?")[0]
RECURSIVE UpToQuestionMark(_, _)
UpToQuestionMark(s, k) ==
    IF k > Len(s) THEN s
    ELSE IF SubSeq(s, k, k) = "?" THEN SubSeq(s, 1, k - 1)
    ELSE UpToQuestionMark(s, k + 1)
SplitQuery(s) == UpToQuestionMark(s, 1)
\* Python s[31:]
Slice31(s) == SubSeq(s, 32, Len(s))
\* SQL  s LIKE 'prefix%'  (NULL LIKE ... is NULL, so the row is not selected)
Like(s, prefix) == s # NULL /\ Len(s) >= Len(prefix) /\ SubSeq(s, 1, Len(prefix)) = prefix
\* SQL  s NOT LIKE 'prefix%'
NotLike(s, prefix) == s # NULL /\ ~Like(s, prefix)
\* row[0][:16].replace("T", " ", 1): the minute of a second-exact timestamp
MinuteOf(ts) == ts \div 60

\* ------------------------------------------------------------ the tables
\* Lines 119-132 number the rows of all files with one counter, the
\* StreamingHistory files first: history ids come before endsong ids.
HistoryIds == 1..NumHistory
\* The inputs with two clusters have one history row more.
ClusterHistoryIds == 1..(NumHistory + 1)
FirstEndsongId == NumHistory + 2
\* Two intact endsong rows (another platform, names present) ...
HealthyIds == {FirstEndsongId, FirstEndsongId + 1}
\* ... and the defective ones (platform = 'ios', names nulled).
DefectiveIds == (FirstEndsongId + 2)..(FirstEndsongId + 1 + NumDefective)

HistoryRow(id, endTime, msPlayed, artistName, trackName) ==
    [endTime |-> endTime, artistName |-> artistName, trackName |-> trackName,
     msPlayed |-> msPlayed, id |-> id]

EndsongRow(id, ts, platform, ms_played, track, artist, album, uri, off) ==
    [ts |-> ts, platform |-> platform, ms_played |-> ms_played,
     master_metadata_track_name |-> track,
     master_metadata_album_artist_name |-> artist,
     master_metadata_album_album_name |-> album,
     spotify_track_uri |-> uri,
     offline_timestamp |-> off, id |-> id]

\* (artistName, trackName) values of the history files
HistoryNames == {<<UnknownArtist, UnknownTrack>>, <<"Artist Y", "Track X">>}
Durations == {1, 2}
\* history rows all end in minute 1; a defective row of minute 2 has no
\* exact match
Minutes == {1, 2}
\* offline_timestamp rises or falls with the id, so the order of line 174
\* agrees or disagrees with the order of insertion
OfflineOrders == {"asc", "desc"}

DefectiveRow(id, minute, ms, order) ==
    EndsongRow(id, minute * 60 + id, "ios", ms, NULL, NULL, NULL, NULL,
               IF order = "asc" THEN id ELSE 100 - id)

\* album/uri values of an intact row
HealthyExtras == {<<NULL, NULL>>,
                  <<"Album 1", UriPrefix \o "id1">>,
                  <<"Album 2", UrlPrefix \o "id2?si=tok">>}
\* (artist, track) of an intact row: one the history also has, or another
HealthyNames == {<<"Artist Y", "Track X">>, <<"Artist B", "Track Z">>}

HealthyRow(id, ts, names, extra) ==
    EndsongRow(id, ts, "android", 1, names[2], names[1], extra[1], extra[2], 0)

IntactPair ==
    {HealthyRow(FirstEndsongId, 61, <<"Artist Y", "Track X">>,
                <<"Album 1", UriPrefix \o "id1">>),
     HealthyRow(FirstEndsongId + 1, 62, <<"Artist Y", "Track X">>,
                <<"Album 2", UrlPrefix \o "id2?si=tok">>)}

\* Inputs that vary the matching: every placing of the history rows (all in
\* minute 1) and of the defective rows, with two intact rows of the same
\* track, the newer one carrying a web-URL identifier.  Inputs that differ
\* only in which id carries which (minute, duration) are taken once:
\* durations do not fall along the history ids, (minute, duration) does not
\* fall along the defective ids, and the first defective row lies in
\* minute 1; names and offline order stay free.
MatchingShapes ==
    {t \in [hm : [HistoryIds -> Durations], hn : [HistoryIds -> HistoryNames],
            dmin : [DefectiveIds -> Minutes], dms : [DefectiveIds -> Durations],
            order : OfflineOrders] :
        /\ \A h \in HistoryIds \ {NumHistory} : t.hm[h] <= t.hm[h + 1]
        /\ \A d \in DefectiveIds \ {FirstEndsongId + 1 + NumDefective} :
               2 * t.dmin[d] + t.dms[d] <= 2 * t.dmin[d + 1] + t.dms[d + 1]
        /\ t.dmin[FirstEndsongId + 2] = 1}

MatchingInputs ==
    {[history |-> {HistoryRow(h, 1, t.hm[h], t.hn[h][1], t.hn[h][2]) : h \in HistoryIds},
      endsong |-> {DefectiveRow(d, t.dmin[d], t.dms[d], t.order) : d \in DefectiveIds}
                  \cup IntactPair] :
        t \in MatchingShapes}

\* Inputs with two clusters: the history rows fall into two groups of equal
\* (minute, duration), (1, 1) and (2, 2); every defective row lies in one
\* of the two groups.
ClusterShapes ==
    {t \in [hn : [ClusterHistoryIds -> HistoryNames],
            dg : [DefectiveIds -> {1, 2}], order : OfflineOrders] :
        \A d \in DefectiveIds \ {FirstEndsongId + 1 + NumDefective} :
            t.dg[d] <= t.dg[d + 1]}

ClusterInputs ==
    {[history |-> {HistoryRow(h, IF 2 * h <= NumHistory + 1 THEN 1 ELSE 2,
                              IF 2 * h <= NumHistory + 1 THEN 1 ELSE 2,
                              t.hn[h][1], t.hn[h][2]) : h \in ClusterHistoryIds},
      endsong |-> {DefectiveRow(d, t.dg[d], t.dg[d], t.order) : d \in DefectiveIds}
                  \cup IntactPair] :
        t \in ClusterShapes}

\* Inputs that vary the enrichment: the first history row is the sentinel,
\* the others a named track; the defective rows match one history row each
\* (durations 1, 2, 2, ...); the two intact rows vary.
EnrichmentInputs ==
    {[history |-> {HistoryRow(h, 1, Min(h, 2),
                              IF h = 1 THEN UnknownArtist ELSE "Artist Y",
                              IF h = 1 THEN UnknownTrack ELSE "Track X") :
                       h \in HistoryIds \cap (1..2)}
                  \cup {HistoryRow(h, 2, 1, "Artist Y", "Track X") :
                       h \in HistoryIds \ (1..2)},
      endsong |-> {DefectiveRow(d, 1, Min(d - FirstEndsongId - 1, 2), "asc") :
                       d \in DefectiveIds}
                  \cup {HealthyRow(FirstEndsongId, 62, n1, e1),
                        HealthyRow(FirstEndsongId + 1, t2, n2, e2)}] :
        n1 \in HealthyNames, n2 \in HealthyNames,
        e1 \in HealthyExtras, e2 \in HealthyExtras, t2 \in {61, 62, 63}}

Inputs == MatchingInputs \cup ClusterInputs \cup EnrichmentInputs

\* ------------------------------------------------------------- the state
VARIABLES
    history,           \* table history (set of rows), read-only
    endsong,           \* table endsong (set of rows), read-only
    endsong_modified,  \* table endsong_modified: a bag of rows (no key)
    db_source,         \* data.db on disk: [state, rows]
    pc,                \* the stage the script is at
    run,               \* number of the current run
    i,                 \* the "Updated" counter
    multiple,          \* clusters: sorted tuples of history ids
    none,              \* ids of defective rows without an exact match
    todoMultiple,      \* clusters the loop of line 169 has yet to visit
    todoNone,          \* ids the loop of line 189 has yet to visit
    missing,           \* ids without any candidate
    unsure,            \* ids the operator declined to choose for
    no_extra,          \* (track, artist) -> id: work items for the oracle
    todoOracle,        \* keys the loop of line 232 has yet to visit
    skipped,           \* ids printed as "No extra data"
    outfile,           \* fixed/endsong_00.json: [written, rows]
    dropped,           \* ids of the rows line 300 deleted in this run
    error,             \* the exception that ended the run, or "none"
    loaded,            \* what this run read from data.db at its start
    prompts,           \* this run's prompts of line 201: id -> [options, x]
    verdicts,          \* this run's oracle outcomes: key -> outcome
    script,            \* the latest answer given at each prompt, over all runs
    sameAnswers        \* no prompt of a re-run was answered differently

vars == <<history, endsong, endsong_modified, db_source, pc, run, i, multiple,
          none, todoMultiple, todoNone, missing, unsure, no_extra, todoOracle,
          skipped, outfile, dropped, error, loaded, prompts, verdicts, script,
          sameAnswers>>

inputVars == <<history, endsong>>
matchVars == <<multiple, none, todoMultiple, todoNone, missing, unsure>>
oracleVars == <<no_extra, todoOracle, skipped, verdicts>>
ghostVars == <<prompts, script, sameAnswers>>
outVars == <<outfile, dropped>>

NoFunction == [x \in {} |-> x]

\* --------------------------------------------------------- table access
\* SELECT ... WHERE: the rows of a bag that lie in `selected`, with their counts
Where(table, selected) == [r \in BagToSet(table) \cap selected |-> table[r]]

\* Mutant: the existence check always answers "not there yet".
CountIdBlind(table, id) == 0

\* SELECT COUNT(id) FROM endsong_modified WHERE id = ?
CountId(table, id) ==
    BagCardinality(Where(table, {r \in BagToSet(table) : r.id = id}))

\* SELECT * FROM endsong WHERE id = ?
EndsongById(id) == CHOOSE e \in endsong : e.id = id

\* INSERT INTO endsong_modified SELECT * FROM endsong WHERE id = ?, then
\* UPDATE endsong_modified SET track = ?, artist = ? WHERE id = ?
InsertResolved(table, id, track, artist) ==
    BagOfAll(LAMBDA r : IF r.id = id
                        THEN [r EXCEPT !.master_metadata_track_name = track,
                                       !.master_metadata_album_artist_name = artist]
                        ELSE r,
             table (+) SetToBag({EndsongById(id)}))

\* SELECT * FROM endsong WHERE platform = 'ios'
DefectiveRows == {e \in endsong : e.platform = "ios"}

\* SELECT * FROM history WHERE endTime = ? AND msPlayed = ?
ExactMatches(row) ==
    ScanOrder({h \in history : h.endTime = MinuteOf(row.ts) /\ h.msPlayed = row.ms_played})

\* match_ids.sort(); tuple(match_ids)
SortedIds(rows) ==
    LET ids == {rows[k].id : k \in DOMAIN rows}
        RECURSIVE Asc(_)
        Asc(S) == IF S = {} THEN <<>>
                  ELSE LET m == CHOOSE x \in S : \A y \in S : x <= y
                       IN <<m>> \o Asc(S \ {m})
    IN Asc(ids)

\* ------------------------------------------------- stage 1: initial pass
\* Mutant: a row with several exact matches is also filed under none, as if
\* the outcome were recomputed for the fallback.
InitialStepRefiled(acc, row) ==
    LET matches == ExactMatches(row) IN
    IF Len(matches) = 1
    THEN IF CountId(acc.table, row.id) = 0
         THEN [acc EXCEPT !.table = InsertResolved(@, row.id, matches[1].trackName,
                                                   matches[1].artistName),
                          !.i = @ + 1]
         ELSE acc
    ELSE IF Len(matches) > 1
    THEN [acc EXCEPT !.multiple = @ \cup {SortedIds(matches)},
                     !.none = @ \cup {row.id}]
    ELSE [acc EXCEPT !.none = @ \cup {row.id}]

\* One iteration of the loop of line 147 on the accumulated state.
InitialStep(acc, row) ==
    LET matches == ExactMatches(row) IN
    IF Len(matches) = 1
    THEN IF CountId(acc.table, row.id) = 0
         THEN [acc EXCEPT !.table = InsertResolved(@, row.id, matches[1].trackName,
                                                   matches[1].artistName),
                          !.i = @ + 1]
         ELSE acc
    ELSE IF Len(matches) > 1
    THEN [acc EXCEPT !.multiple = @ \cup {SortedIds(matches)}]
    ELSE [acc EXCEPT !.none = @ \cup {row.id}]

RECURSIVE InitialLoop(_, _)
InitialLoop(acc, rows) ==
    IF rows = <<>> THEN acc
    ELSE InitialLoop(InitialStep(acc, Head(rows)), Tail(rows))

\* Mutant: the loop over none is left out after the clusters.
StageAfterSkipping(stage, mult, non) ==
    IF stage = "initial" /\ mult # {} THEN "multiple"
    ELSE IF stage = "initial" /\ non # {} THEN "none"
    ELSE "enrich"

\* The stage that follows the initial pass: a for loop over an empty set
\* is over at once.
StageAfter(stage, mult, non) ==
    IF stage = "initial" /\ mult # {} THEN "multiple"
    ELSE IF stage \in {"initial", "multiple"} /\ non # {} THEN "none"
    ELSE "enrich"

InitialPass ==
    /\ pc = "initial"
    /\ LET r == InitialLoop([table |-> endsong_modified, i |-> i,
                             multiple |-> {}, none |-> {}],
                            ScanOrder(DefectiveRows))
       IN /\ endsong_modified' = r.table
          /\ i' = r.i
          /\ multiple' = r.multiple
          /\ none' = r.none
          /\ todoMultiple' = r.multiple
          /\ todoNone' = r.none
          /\ pc' = StageAfter("initial", r.multiple, r.none)
    /\ UNCHANGED <<inputVars, db_source, run, missing, unsure, oracleVars,
                   outVars, error, loaded, ghostVars>>

\* ----------------------------------------- stage 2: clusters (multiple)
\* SELECT * FROM history WHERE id IN (entry)
ClusterHistory(entry) == ScanOrder({h \in history : h.id \in SeqToSet(entry)})

\* Mutant: ORDER BY id instead of ORDER BY offline_timestamp.
ClusterEndsongById(first) ==
    ScanOrder({e \in endsong : /\ e.platform = "ios"
                               /\ e.ms_played = first.msPlayed
                               /\ MinuteOf(e.ts) = first.endTime})

\* SELECT id FROM endsong WHERE platform = 'ios' AND ms_played = ? AND
\* ts LIKE '<minute>%' ORDER BY offline_timestamp
ClusterEndsong(first) ==
    LET S == {e \in endsong : /\ e.platform = "ios"
                              /\ e.ms_played = first.msPlayed
                              /\ MinuteOf(e.ts) = first.endTime}
    IN OrderBy(S, [e \in S |-> e.offline_timestamp])

\* for hist_ent, endsong_id in zip(history, endsong), from position k on
RECURSIVE ZipLoop(_, _, _, _)
ZipLoop(acc, hist, es, k) ==
    IF k > Min(Len(hist), Len(es)) THEN acc
    ELSE ZipLoop(IF CountId(acc.table, es[k].id) = 0
                 THEN [table |-> InsertResolved(acc.table, es[k].id,
                                                hist[k].trackName, hist[k].artistName),
                       i |-> acc.i + 1]
                 ELSE acc,
                 hist, es, k + 1)

FixMultiple ==
    /\ pc = "multiple"
    /\ \E entry \in todoMultiple :
         LET hist == ClusterHistory(entry)
             r == ZipLoop([table |-> endsong_modified, i |-> i], hist,
                          ClusterEndsong(hist[1]), 1)
         IN /\ endsong_modified' = r.table
            /\ i' = r.i
            /\ todoMultiple' = todoMultiple \ {entry}
            /\ pc' = IF todoMultiple' = {} THEN StageAfter("multiple", {}, none)
                     ELSE "multiple"
    /\ UNCHANGED <<inputVars, db_source, run, multiple, none, todoNone, missing,
                   unsure, oracleVars, outVars, error, loaded, ghostVars>>

\* ---------------------------------- stage 3: duration fallback (none)
\* SELECT artistName, trackName FROM history WHERE msPlayed = ?
FallbackMatches(ms_played) ==
    LET rows == ScanOrder({h \in history : h.msPlayed = ms_played})
    IN [k \in DOMAIN rows |-> <<rows[k].artistName, rows[k].trackName>>]

\* What the operator may type at "Index or u/U for unsure: "
OperatorInputs ==
    {[kind |-> "unsure", k |-> 0], [kind |-> "text", k |-> 0]}
    \cup {[kind |-> "index", k |-> j] : j \in 0..Cardinality(HistoryNames)}

\* Python list indexing options[k]: 0-based, negative k counts from the end
PyIndexOk(list, k) == -Len(list) <= k /\ k < Len(list)
\* Mutant: the index is taken as 1-based, options[int(x) - 1].
PyIndexOneBased(list, k) == IF k >= 1 THEN list[k] ELSE list[Len(list) + k]
PyIndex(list, k) == IF k >= 0 THEN list[k + 1] ELSE list[Len(list) + k + 1]

\* An uncaught exception ends the process: what it held in memory is gone,
\* data.db and the output file stay as they were.
Crash(exception) ==
    /\ pc' = "crashed"
    /\ error' = exception
    /\ endsong_modified' = EmptyBag
    /\ i' = 0
    /\ multiple' = {} /\ none' = {} /\ todoMultiple' = {} /\ todoNone' = {}
    /\ missing' = {} /\ unsure' = {}
    /\ no_extra' = NoFunction /\ todoOracle' = {} /\ skipped' = {}
    /\ verdicts' = NoFunction /\ prompts' = NoFunction

\* The loop of line 189 leaves entry behind.
FallbackDone(entry) ==
    /\ todoNone' = todoNone \ {entry}
    /\ pc' = IF todoNone' = {} THEN "enrich" ELSE "none"

\* The operator's answer x at the prompt for entry, and whether a re-run
\* answers as before.
Answered(entry, x) ==
    /\ script' = [script EXCEPT !.prompts = (entry :> x) @@ @]
    /\ sameAnswers' = (sameAnswers /\ (entry \in DOMAIN script.prompts
                                        => script.prompts[entry] = x))

\* line 190, count > 0: the row was resolved before
FallbackAlreadyUpdated ==
    /\ pc = "none"
    /\ \E entry \in todoNone :
         /\ CountId(endsong_modified, entry) > 0
         /\ FallbackDone(entry)
    /\ UNCHANGED <<inputVars, endsong_modified, db_source, run, i, multiple, none,
                   todoMultiple, missing, unsure, oracleVars, outVars, error,
                   loaded, ghostVars>>

\* lines 212-213: no history row has this duration
FallbackMissing ==
    /\ pc = "none"
    /\ \E entry \in todoNone :
         /\ CountId(endsong_modified, entry) = 0
         /\ Len(FallbackMatches(EndsongById(entry).ms_played)) = 0
         /\ missing' = missing \cup {entry}
         /\ FallbackDone(entry)
    /\ UNCHANGED <<inputVars, endsong_modified, db_source, run, i, multiple, none,
                   todoMultiple, unsure, oracleVars, outVars, error, loaded,
                   ghostVars>>

\* lines 194, 209-211 with len(set(matches)) = 1: resolved without a prompt
FallbackSingle ==
    /\ pc = "none"
    /\ \E entry \in todoNone :
         LET matches == FallbackMatches(EndsongById(entry).ms_played) IN
         /\ CountId(endsong_modified, entry) = 0
         /\ Len(matches) > 0
         /\ Cardinality(SeqToSet(matches)) = 1
         /\ endsong_modified' = InsertResolved(endsong_modified, entry,
                                               matches[1][2], matches[1][1])
         /\ i' = i + 1
         /\ FallbackDone(entry)
    /\ UNCHANGED <<inputVars, db_source, run, multiple, none, todoMultiple,
                   missing, unsure, oracleVars, outVars, error, loaded, ghostVars>>

\* lines 195-205: the operator answers u or U
FallbackUnsure ==
    /\ pc = "none"
    /\ \E entry \in todoNone :
         LET matches == FallbackMatches(EndsongById(entry).ms_played) IN
         /\ CountId(endsong_modified, entry) = 0
         /\ Cardinality(SeqToSet(matches)) > 1
         /\ \E options \in Orderings(SeqToSet(matches)) :
              prompts' = (entry :> [options |-> options,
                                    x |-> [kind |-> "unsure", k |-> 0]]) @@ prompts
         /\ Answered(entry, [kind |-> "unsure", k |-> 0])
         /\ unsure' = unsure \cup {entry}
         /\ FallbackDone(entry)
    /\ UNCHANGED <<inputVars, endsong_modified, db_source, run, i, multiple, none,
                   todoMultiple, missing, oracleVars, outVars, error, loaded>>

\* lines 195-211: the operator answers an index of the list shown
FallbackChoose ==
    /\ pc = "none"
    /\ \E entry \in todoNone :
         LET matches == FallbackMatches(EndsongById(entry).ms_played) IN
         /\ CountId(endsong_modified, entry) = 0
         /\ Cardinality(SeqToSet(matches)) > 1
         /\ \E options \in Orderings(SeqToSet(matches)), x \in OperatorInputs :
              /\ x.kind = "index"
              /\ PyIndexOk(options, x.k)
              /\ prompts' = (entry :> [options |-> options, x |-> x]) @@ prompts
              /\ Answered(entry, x)
              /\ endsong_modified' =
                     InsertResolved(endsong_modified, entry,
                                    PyIndex(options, x.k)[2], PyIndex(options, x.k)[1])
         /\ i' = i + 1
         /\ FallbackDone(entry)
    /\ UNCHANGED <<inputVars, db_source, run, multiple, none, todoMultiple,
                   missing, unsure, oracleVars, outVars, error, loaded>>

\* line 207: int(x) raises ValueError, options[int(x)] raises IndexError
FallbackBadInput ==
    /\ pc = "none"
    /\ \E entry \in todoNone :
         LET matches == FallbackMatches(EndsongById(entry).ms_played) IN
         /\ CountId(endsong_modified, entry) = 0
         /\ Cardinality(SeqToSet(matches)) > 1
         /\ \E options \in Orderings(SeqToSet(matches)), x \in OperatorInputs :
              /\ x.kind # "unsure"
              /\ x.kind = "index" => ~PyIndexOk(options, x.k)
              /\ Answered(entry, x)
              /\ Crash(IF x.kind = "text" THEN "ValueError" ELSE "IndexError")
    /\ UNCHANGED <<inputVars, db_source, run, outVars, loaded>>

\* ------------------------------------------------ stage 4: track data
\* ... WHERE master_metadata_album_album_name IS NULL OR spotify_track_uri IS NULL
NeedsTrackData(r) ==
    r.master_metadata_album_album_name = NULL \/ r.spotify_track_uri = NULL

\* SELECT DISTINCT album, uri FROM endsong WHERE track = ? AND artist = ?
\* ORDER BY ts DESC LIMIT 1.  SQLite keeps, for every distinct (album, uri),
\* the first row of the scan that has it, sorts those rows by their ts,
\* newest first, and returns the first: a sequence of zero or one pairs.
LookupTrackData(track, artist) ==
    LET rows == {e \in endsong : /\ track # NULL /\ artist # NULL
                                 /\ e.master_metadata_track_name = track
                                 /\ e.master_metadata_album_artist_name = artist}
        Extra(e) == <<e.master_metadata_album_album_name, e.spotify_track_uri>>
        firsts == {e \in rows : \A q \in rows : Extra(q) = Extra(e) => e.id <= q.id}
        sorted == OrderBy(firsts, [e \in firsts |-> 0 - e.ts])
    IN IF sorted = <<>> THEN <<>> ELSE <<Extra(sorted[1])>>

KeyOf(r) == <<r.master_metadata_track_name, r.master_metadata_album_artist_name>>

\* line 223 for every row the lookup finds data for
WithTrackData(table) ==
    BagOfAll(LAMBDA r :
               IF NeedsTrackData(r) /\ LookupTrackData(KeyOf(r)[1], KeyOf(r)[2]) # <<>>
               THEN LET data == LookupTrackData(KeyOf(r)[1], KeyOf(r)[2])[1]
                    IN [r EXCEPT !.master_metadata_album_album_name = data[1],
                                 !.spotify_track_uri = data[2]]
               ELSE r,
             table)

\* The rows line 221 files under no_extra
WithoutTrackData(table) ==
    {r \in BagToSet(table) :
        NeedsTrackData(r) /\ LookupTrackData(KeyOf(r)[1], KeyOf(r)[2]) = <<>>}

\* lines 215-223.  no_extra keeps, for each key, the id of the last row of
\* the table with that key; the table's row order is the order the earlier
\* loops visited their sets in, so any row of the key can be the last.
AddTrackData ==
    /\ pc = "enrich"
    /\ LET open == WithoutTrackData(endsong_modified)
           keys == {KeyOf(r) : r \in open}
       IN \E ne \in [keys -> DefectiveIds] :
            /\ \A k \in keys : \E r \in open : KeyOf(r) = k /\ r.id = ne[k]
            /\ no_extra' = ne
    /\ endsong_modified' = WithTrackData(endsong_modified)
    /\ pc' = "del"
    /\ UNCHANGED <<inputVars, db_source, run, i, matchVars, todoOracle, skipped,
                   verdicts, outVars, error, loaded, ghostVars>>

\* lines 225-227: del no_extra[("Unknown Track", "Unknown Artist")]
DelSentinel ==
    /\ pc = "del"
    /\ SentinelKey \in DOMAIN no_extra
    /\ no_extra' = [k \in DOMAIN no_extra \ {SentinelKey} |-> no_extra[k]]
    /\ skipped' = {}
    /\ todoOracle' = DOMAIN no_extra'
    /\ pc' = IF DOMAIN no_extra' = {} THEN "fixuri" ELSE "oracle"
    /\ UNCHANGED <<inputVars, endsong_modified, db_source, run, i, matchVars,
                   verdicts, outVars, error, loaded, ghostVars>>

\* line 225 when no row carries the sentinel pair: KeyError
DelSentinelKeyError ==
    /\ pc = "del"
    /\ SentinelKey \notin DOMAIN no_extra
    /\ Crash("KeyError")
    /\ UNCHANGED <<inputVars, db_source, run, outVars, loaded, script, sameAnswers>>

\* --------------------------------------------- stage 5: the oracle loop
\* What the search page answers: an album and a share link
OracleAlbum == "Album O"
OracleLink == UrlPrefix \o "idO?si=tok"

OracleDone(k, outcome) ==
    /\ todoOracle' = todoOracle \ {k}
    /\ pc' = IF todoOracle' = {} THEN "fixuri" ELSE "oracle"
    /\ verdicts' = (k :> outcome) @@ verdicts
    /\ script' = [script EXCEPT !.verdicts = (k :> outcome) @@ @]
    /\ sameAnswers' = (sameAnswers /\ (k \in DOMAIN script.verdicts
                                        => script.verdicts[k] = outcome))

\* lines 236-240: no result within the wait; except: j += 1; continue
OracleTimeout ==
    /\ pc = "oracle"
    /\ \E k \in todoOracle : OracleDone(k, "timeout")
    /\ UNCHANGED <<inputVars, endsong_modified, db_source, run, i, matchVars,
                   no_extra, skipped, outVars, error, loaded, prompts>>

\* lines 246-278: the first result matches, or the operator answers y or an
\* index; the share link is cut to the bare identifier (line 276)
OracleAccept ==
    /\ pc = "oracle"
    /\ \E k \in todoOracle :
         /\ OracleDone(k, "accept")
         /\ endsong_modified' =
              BagOfAll(LAMBDA r :
                         IF KeyOf(r) = k
                         THEN [r EXCEPT !.master_metadata_album_album_name = OracleAlbum,
                                        !.spotify_track_uri = Slice31(SplitQuery(OracleLink))]
                         ELSE r,
                       endsong_modified)
    /\ UNCHANGED <<inputVars, db_source, run, i, matchVars, no_extra, skipped,
                   outVars, error, loaded, prompts>>

\* lines 251-255, 279-280: the operator answers n; skipped[v] = v
OracleReject ==
    /\ pc = "oracle"
    /\ \E k \in todoOracle :
         /\ OracleDone(k, "reject")
         /\ skipped' = skipped \cup {no_extra[k]}
    /\ UNCHANGED <<inputVars, endsong_modified, db_source, run, i, matchVars,
                   no_extra, outVars, error, loaded, prompts>>

\* line 256 (int(res) on other text), line 257 (no such result), line 266
\* (the context menu does not appear): an exception outside the try
OracleError ==
    /\ pc = "oracle"
    /\ \E k \in todoOracle :
         /\ script' = [script EXCEPT !.verdicts = (k :> "error") @@ @]
         /\ sameAnswers' = (sameAnswers /\ (k \in DOMAIN script.verdicts
                                             => script.verdicts[k] = "error"))
    /\ Crash("OracleError")
    /\ UNCHANGED <<inputVars, db_source, run, outVars, loaded>>

\* ------------------------------------------ stage 6: identifier fix-up
\* lines 288-291: "spotify:track:" + uri.split("?")[0][31:] where LIKE 'https%'
FixUrl(table) ==
    BagOfAll(LAMBDA r :
               IF Like(r.spotify_track_uri, "https")
               THEN [r EXCEPT !.spotify_track_uri =
                                  UriPrefix \o Slice31(SplitQuery(r.spotify_track_uri))]
               ELSE r,
             table)

\* lines 294-297: "spotify:track:" + uri where NOT LIKE 'spotify%'
FixBare(table) ==
    BagOfAll(LAMBDA r :
               IF NotLike(r.spotify_track_uri, "spotify")
               THEN [r EXCEPT !.spotify_track_uri = UriPrefix \o r.spotify_track_uri]
               ELSE r,
             table)

FixUris ==
    /\ pc = "fixuri"
    /\ endsong_modified' = FixBare(FixUrl(endsong_modified))
    /\ pc' = "export"
    /\ UNCHANGED <<inputVars, db_source, run, i, matchVars, oracleVars, outVars,
                   error, loaded, ghostVars>>

\* ------------------------------------------------- stage 7: the export
IsSentinel(r) ==
    /\ r.master_metadata_track_name = UnknownTrack
    /\ r.master_metadata_album_artist_name = UnknownArtist

\* Mutant: the artist is compared with the track's sentinel.
DeleteSentinelTypo(table) ==
    Where(table, {r \in BagToSet(table) :
                     ~(/\ r.master_metadata_track_name = UnknownTrack
                       /\ r.master_metadata_album_artist_name = UnknownTrack)})

\* line 300: DELETE FROM endsong_modified WHERE track = 'Unknown Track' AND
\* artist = 'Unknown Artist'
DeleteSentinel(table) ==
    Where(table, {r \in BagToSet(table) : ~IsSentinel(r)})

\* lines 305-309: dict(row) without "id" ("source" is not modelled)
Exported(table) ==
    BagOfAll(LAMBDA r : [f \in DOMAIN r \ {"id"} |-> r[f]], table)

Export ==
    /\ pc = "export"
    /\ endsong_modified' = DeleteSentinel(endsong_modified)
    /\ dropped' = {r.id : r \in BagToSet(endsong_modified) \ BagToSet(endsong_modified')}
    /\ outfile' = [written |-> TRUE, rows |-> Exported(endsong_modified')]
    /\ pc' = "save"
    /\ UNCHANGED <<inputVars, db_source, run, i, matchVars, oracleVars, error,
                   loaded, ghostVars>>

\* line 330: db.backup(db_source)
SaveSnapshot ==
    /\ pc = "save"
    /\ db_source' = [state |-> "saved", rows |-> endsong_modified]
    /\ pc' = "done"
    /\ UNCHANGED <<inputVars, endsong_modified, run, i, matchVars, oracleVars,
                   outVars, error, loaded, ghostVars>>

\* ----------------------------------------------------------- the runs
\* lines 71-77 and 137 of a later run: data.db holds a saved database
StartRun ==
    /\ pc \in {"done", "crashed"}
    /\ run < MaxRuns
    /\ db_source.state = "saved"
    /\ endsong_modified' = db_source.rows
    /\ loaded' = db_source
    /\ run' = run + 1
    /\ i' = 0
    /\ pc' = "initial"
    /\ error' = "none"
    /\ multiple' = {} /\ none' = {} /\ todoMultiple' = {} /\ todoNone' = {}
    /\ missing' = {} /\ unsure' = {}
    /\ no_extra' = NoFunction /\ todoOracle' = {} /\ skipped' = {}
    /\ verdicts' = NoFunction /\ prompts' = NoFunction
    /\ dropped' = {}
    /\ UNCHANGED <<inputVars, db_source, outfile, script, sameAnswers>>

\* lines 72-76 and 146 after a first run that did not finish: connect()
\* left an empty data.db behind, so db_exists holds, the backup copies no
\* table and the first query raises "no such table: endsong"
StartRunNoTables ==
    /\ pc = "crashed"
    /\ run < MaxRuns
    /\ db_source.state = "empty"
    /\ loaded' = db_source
    /\ run' = run + 1
    /\ Crash("OperationalError")
    /\ dropped' = {}
    /\ UNCHANGED <<inputVars, db_source, outfile, script, sameAnswers>>

\* The first run, after lines 62-137: data.db did not exist, connect()
\* created it empty, the tables were filled from the files and
\* endsong_modified was created empty.
Init ==
    /\ \E in \in Inputs : history = in.history /\ endsong = in.endsong
    /\ endsong_modified = EmptyBag
    /\ db_source = [state |-> "empty", rows |-> EmptyBag]
    /\ loaded = [state |-> "absent", rows |-> EmptyBag]
    /\ pc = "initial"
    /\ run = 1
    /\ i = 0
    /\ multiple = {} /\ none = {} /\ todoMultiple = {} /\ todoNone = {}
    /\ missing = {} /\ unsure = {}
    /\ no_extra = NoFunction /\ todoOracle = {} /\ skipped = {}
    /\ outfile = [written |-> FALSE, rows |-> EmptyBag]
    /\ dropped = {}
    /\ error = "none"
    /\ prompts = NoFunction /\ verdicts = NoFunction
    /\ script = [prompts |-> NoFunction, verdicts |-> NoFunction]
    /\ sameAnswers = TRUE

Next ==
    \/ InitialPass
    \/ FixMultiple
    \/ FallbackAlreadyUpdated
    \/ FallbackMissing
    \/ FallbackSingle
    \/ FallbackUnsure
    \/ FallbackChoose
    \/ FallbackBadInput
    \/ AddTrackData
    \/ DelSentinel
    \/ DelSentinelKeyError
    \/ OracleTimeout
    \/ OracleAccept
    \/ OracleReject
    \/ OracleError
    \/ FixUris
    \/ Export
    \/ SaveSnapshot
    \/ StartRun
    \/ StartRunNoTables

Spec == Init /\ [][Next]_vars

\* =============================================================== claims
HasRow(id) == \E r \in BagToSet(endsong_modified) : r.id = id
RowOf(id) == CHOOSE r \in BagToSet(endsong_modified) : r.id = id
NamesOf(r) == <<r.master_metadata_album_artist_name, r.master_metadata_track_name>>
NoDuplicateId(table) ==
    \A r \in BagToSet(table) :
        /\ CopiesIn(r, table) = 1
        /\ \A q \in BagToSet(table) : q.id = r.id => q = r

\* The resolvers are through and the Exporter has not yet deleted a row.
AfterResolvers == pc \in {"enrich", "del", "oracle", "fixuri", "export"}
AfterClusters == pc = "none" \/ AfterResolvers

\* The secondary and the defective primary records of one minute and duration
SecondaryOf(g) == {h \in history : h.endTime = g[1] /\ h.msPlayed = g[2]}
PrimaryOf(g) == {e \in endsong : /\ e.platform = "ios"
                                 /\ MinuteOf(e.ts) = g[1] /\ e.ms_played = g[2]}
\* The clusters: two or more secondary records collide, some primary has them
ClusterGroups == {g \in Minutes \X Durations :
                     Cardinality(SecondaryOf(g)) >= 2 /\ PrimaryOf(g) # {}}
\* S: by sequence_id ascending; P: by offline_timestamp ascending
ClusterS(g) == OrderBy(SecondaryOf(g), [h \in SecondaryOf(g) |-> h.id])
ClusterP(g) == OrderBy(PrimaryOf(g), [e \in PrimaryOf(g) |-> e.offline_timestamp])
\* The primaries of a cluster beyond the length of S
SurplusIds ==
    UNION {{ClusterP(g)[k].id : k \in (Len(ClusterS(g)) + 1)..Len(ClusterP(g))} :
              g \in ClusterGroups}

\* C1: in every state of every sequence of runs, endsong_modified (and the
\* database saved to data.db) holds at most one row per PrimaryRecord id.
C1_OneRowPerId == NoDuplicateId(endsong_modified) /\ NoDuplicateId(db_source.rows)

\* A re-run whose three resolvers are through: a record of the fallback set
\* and a record of a cluster were found resolved in the loaded snapshot, and
\* a row was inserted as well.
C1_Witness ==
    /\ run = 2 /\ pc = "enrich" /\ i >= 1
    /\ \E r \in BagToSet(loaded.rows) : r.id \in none
    /\ \E r \in BagToSet(loaded.rows) : r.id \notin none

\* C2 (as claimed): a run on the snapshot of a completed run, with the same
\* operator answers, ends with the Reconciled collection it loaded and has
\* committed no resolution: the Updated counter is 0.
C2_SecondRunIdle ==
    (pc = "done" /\ loaded.state = "saved" /\ sameAnswers)
        => (endsong_modified = loaded.rows /\ i = 0)

CoverCount(d) ==
    (IF HasRow(d) THEN 1 ELSE 0) + (IF d \in missing THEN 1 ELSE 0)
        + (IF d \in unsure THEN 1 ELSE 0)

\* C3 (as claimed): at the end of a completed run every defective record has
\* a ReconciledRecord, or is in Missing, or is in Unsure: exactly one of them.
C3_CoveragePartition == pc = "done" => \A d \in DefectiveIds : CoverCount(d) = 1

\* C3 (amended): at the end of a completed run every defective record is in
\* at most one of the three, and it is in none of them exactly when the
\* Exporter deleted its row (the sentinel pair) or it is a surplus primary of
\* a cluster.
C3_PartitionUpToDrops ==
    pc = "done" => \A d \in DefectiveIds :
        /\ CoverCount(d) <= 1
        /\ CoverCount(d) = 0 <=> d \in dropped \cup SurplusIds

\* A completed run with a deleted sentinel row, a cluster surplus and a
\* record that kept its row.
C3_Witness ==
    /\ pc = "done" /\ dropped # {} /\ SurplusIds # {}
    /\ \E d \in DefectiveIds : HasRow(d)

\* C4 (as claimed): no stage ends the run with an error.
C4_NoStageAborts ==
    error \notin {"KeyError", "ValueError", "IndexError", "OracleError"}

\* C5: once the Exporter has run, neither the output file nor the Reconciled
\* collection (in memory or saved) holds a row with track 'Unknown Track' and
\* artist 'Unknown Artist'.
C5_SentinelExcluded ==
    /\ \A r \in BagToSet(outfile.rows) : ~IsSentinel(r)
    /\ \A r \in BagToSet(db_source.rows) : ~IsSentinel(r)
    /\ pc \in {"save", "done"} => \A r \in BagToSet(endsong_modified) : ~IsSentinel(r)

\* The Exporter has deleted sentinel rows and written other rows.
C5_Witness ==
    /\ pc = "save" /\ dropped # {}
    /\ outfile.written /\ outfile.rows # EmptyBag

\* C6 (as claimed): a pair whose oracle query timed out is in the
\* "No extra data" report of the run (the report lists the ids no_extra
\* holds for the pairs).
C6_TimeoutReported ==
    pc = "done" => \A k \in DOMAIN verdicts :
        verdicts[k] = "timeout" => no_extra[k] \in skipped

\* C7: when the loop over the clusters is through, in every cluster the k-th
\* primary of P has a row with track and artist of the k-th secondary of S,
\* for k up to min(|S|, |P|), and the primaries beyond have no row; this
\* holds whichever order the clusters were visited in.
C7_ClusterPairing ==
    AfterClusters => \A g \in ClusterGroups : \A k \in 1..Len(ClusterP(g)) :
        IF k <= Len(ClusterS(g))
        THEN /\ HasRow(ClusterP(g)[k].id)
             /\ NamesOf(RowOf(ClusterP(g)[k].id)) =
                    <<ClusterS(g)[k].artistName, ClusterS(g)[k].trackName>>
        ELSE ~HasRow(ClusterP(g)[k].id)

\* Two clusters were visited, and in one of them the offline order of two
\* paired primaries is the reverse of their insertion order and the two
\* secondaries differ.
C7_Witness ==
    /\ AfterClusters /\ Cardinality(multiple) = 2
    /\ \E g \in ClusterGroups :
         /\ Len(ClusterP(g)) >= 2
         /\ ClusterP(g)[1].id > ClusterP(g)[2].id
         /\ ClusterS(g)[1].trackName # ClusterS(g)[2].trackName

\* The distinct (artist, track) pairs of the secondary records of a duration
CandidatesOf(d) == SeqToSet(FallbackMatches(EndsongById(d).ms_played))

\* C8: a record the fallback loop has visited, and that had no row then, is
\* settled by the number of distinct candidates: none - Missing, no row, no
\* prompt; one - a row with that pair, no prompt; several - a prompt listing
\* each candidate once, where u puts the id in Unsure without a row and an
\* index k gives a row with the k-th candidate listed.
C8_FallbackOutcome ==
    AfterClusters => \A d \in none \ todoNone :
        (\A r \in BagToSet(loaded.rows) : r.id # d) =>
            LET n == Cardinality(CandidatesOf(d)) IN
            /\ n = 0 => d \in missing /\ ~HasRow(d) /\ d \notin DOMAIN prompts
            /\ n = 1 => /\ HasRow(d) /\ d \notin DOMAIN prompts
                        /\ d \notin missing \cup unsure
                        /\ NamesOf(RowOf(d)) \in CandidatesOf(d)
            /\ n >= 2 => /\ d \in DOMAIN prompts
                         /\ Len(prompts[d].options) = n
                         /\ SeqToSet(prompts[d].options) = CandidatesOf(d)
                         /\ prompts[d].x.kind \in {"unsure", "index"}
                         /\ prompts[d].x.kind = "unsure" => d \in unsure /\ ~HasRow(d)
                         /\ prompts[d].x.kind = "index" =>
                              /\ HasRow(d) /\ d \notin unsure
                              /\ NamesOf(RowOf(d)) = prompts[d].options[prompts[d].x.k + 1]

\* The fallback loop is through: one record went to Missing, one was
\* answered u, one was answered with index 1.
C8_Witness ==
    /\ pc = "enrich" /\ missing # {} /\ unsure # {}
    /\ \E d \in DOMAIN prompts : prompts[d].x.kind = "index" /\ prompts[d].x.k = 1

\* C9 (as claimed): by the end of the run every surplus primary of a cluster
\* has a ReconciledRecord or is in Missing or Unsure.
C9_SurplusFallsThrough ==
    pc = "done" => \A d \in SurplusIds : HasRow(d) \/ d \in missing \/ d \in unsure

\* C9 (amended): a surplus primary of a cluster is never handed to the
\* fallback: at no point of any run is it in the none set, in Missing or in
\* Unsure, and it never has a ReconciledRecord.
C9_SurplusNeverRevisited ==
    \A d \in SurplusIds : ~HasRow(d) /\ d \notin none \cup missing \cup unsure

\* A completed run over a cluster with more primaries than secondaries.
C9_Witness == pc = "done" /\ SurplusIds # {}

\* C10 (as claimed): after the enrichment loop of a first run, a row whose
\* track and artist some endsong row has with a non-null album and
\* identifier carries those of the most recent such row; a row without one
\* is left unfilled and its pair is in no_extra.
C10_MostRecentNonNull ==
    (run = 1 /\ pc = "del") => \A r \in BagToSet(endsong_modified) :
        LET cands == {e \in endsong :
                         /\ e.master_metadata_track_name = r.master_metadata_track_name
                         /\ e.master_metadata_album_artist_name =
                                r.master_metadata_album_artist_name
                         /\ e.master_metadata_album_album_name # NULL
                         /\ e.spotify_track_uri # NULL}
        IN IF cands # {}
           THEN \E e \in cands :
                   /\ \A q \in cands : q.ts <= e.ts
                   /\ r.master_metadata_album_album_name = e.master_metadata_album_album_name
                   /\ r.spotify_track_uri = e.spotify_track_uri
           ELSE /\ r.master_metadata_album_album_name = NULL
                /\ r.spotify_track_uri = NULL
                /\ KeyOf(r) \in DOMAIN no_extra

====
